---- MODULE Spec2Model ----
(***************************************************************************)
(* Model of infostop/detect.py: best_partition and run_infomap.           *)
(*                                                                         *)
(* One call of best_partition is a run of the state machine: Init is the   *)
(* state at entry (the arguments are bound, nothing is computed), and the  *)
(* actions are the successive blocks of the function body, in order:       *)
(*   Assertions -> Preprocess -> Network -> InferLabels -> AssignLabels    *)
(*   -> Postprocess.                                                       *)
(* A raise ends the run in pc = "raised", a return in pc = "returned".     *)
(*                                                                         *)
(* Representation.  Coordinates are integers.  A median of integers can be *)
(* a half-integer, so every median is stored doubled (Median2), and a      *)
(* distance is stored as the square of the doubled planar distance; the    *)
(* comparison "distance < r" is made exactly on that representation by     *)
(* DistLess.  Event indices (graph node ids) are 0-based as in the code;   *)
(* TLA+ sequences are 1-based, so event n sits at position n + 1.          *)
(***************************************************************************)
EXTENDS Integers, Sequences, FiniteSets, TLC

VARIABLES
    arg,            \* the arguments of best_partition (a record)
    pc,             \* the block of the function body that runs next
    groups,         \* utils.group_time_distance(...)
    stop_events,    \* medians of the retained groups (doubled), event n at n+1
    event_map,      \* per sample: its event index, or -1
    pairwise_dist,  \* utils.general_pdist(stop_events, distance_function)
    edges,          \* rows of np.column_stack(np.where(D < r2))
    nodes,          \* np.unique(edges.flatten()), ascending
    singleton_nodes,\* set(range(c)).difference(set(nodes))
    partition,      \* {node: community}
    labels,         \* the list labels of run_infomap
    output,         \* the value returned, None before a return
    raised,         \* the error raised, None if none
    oracle_calls    \* number of calls of utils.infomap_communities

vars == <<arg, pc, groups, stop_events, event_map, pairwise_dist, edges, nodes,
          singleton_nodes, partition, labels, output, raised, oracle_calls>>

----------------------------------------------------------------------------
(* Bounds of the model *)

\* Longest trajectory without timestamps.
MaxN == 4
\* Longest trajectory with timestamps.
MaxTimed == 5
\* Length of the trajectories of the daily-visit family.
MaxDays == 9

----------------------------------------------------------------------------
(* Arithmetic helpers *)

Range(s) == {s[i] : i \in 1..Len(s)}

RECURSIVE SeqMax(_)
SeqMax(s) == IF Len(s) = 1 THEN s[1]
             ELSE LET m == SeqMax(Tail(s)) IN IF s[1] > m THEN s[1] ELSE m

RECURSIVE SeqMin(_)
SeqMin(s) == IF Len(s) = 1 THEN s[1]
             ELSE LET m == SeqMin(Tail(s)) IN IF s[1] < m THEN s[1] ELSE m

\* The elements of a finite set of integers in ascending order.
RECURSIVE Ascending(_)
Ascending(S) == IF S = {} THEN <<>>
                ELSE LET m == CHOOSE x \in S : \A y \in S : x <= y
                     IN <<m>> \o Ascending(S \ {m})

\* Python's list indexing: a negative index counts from the end.
PyIndex(list, i) == IF i >= 0 THEN list[i + 1] ELSE list[Len(list) + i + 1]

\* np.median of a non-empty list of integers, doubled.
Median2(s) ==
    LET t == SortSeq(s, LAMBDA a, b : a < b)
        n == Len(t)
    IN IF n % 2 = 1 THEN 2 * t[(n + 1) \div 2]
       ELSE t[n \div 2] + t[n \div 2 + 1]

----------------------------------------------------------------------------
(* The collaborators of infostop.utils, at their interface *)

\* A point with both coordinates doubled.
Point2(sample) == <<2 * sample[1], 2 * sample[2]>>

\* Square of the planar distance between two doubled points.
DistSq2(p, q) == (p[1] - q[1]) * (p[1] - q[1]) + (p[2] - q[2]) * (p[2] - q[2])

\* Metres per degree of arc on the great circle (earth radius 6371 km).
MetersPerDegree == 111195

\* "distance < r", where d is the square of the doubled planar distance.
\* utils.euclidean is the planar distance sqrt(d)/2; utils.haversine, on
\* coordinates in degrees, is MetersPerDegree * sqrt(d)/2.  The quotients
\* keep the great-circle comparison exact within 32-bit integers:
\* K*K*d < 4*r*r  <=>  d <= ((4*r*r - 1) div K) div K.
DistLess(distance_function, d, r) ==
    /\ r > 0
    /\ IF distance_function = "haversine"
       THEN d <= ((4 * r * r - 1) \div MetersPerDegree) \div MetersPerDegree
       ELSE d < 4 * r * r

\* Column k of a list of samples.
Column(points, k) == [i \in 1..Len(points) |-> points[i][k]]

\* Per-dimension median of a non-empty list of samples, doubled.
MedianPoint2(points) == <<Median2(Column(points, 1)), Median2(Column(points, 2))>>

\* The scan of utils.group_time_distance from sample i on: closed are the
\* groups closed so far, cur the members of the current group.
RECURSIVE GroupScan(_, _, _, _, _, _, _)
GroupScan(coords, r1, max_time_between, distance_function, i, closed, cur) ==
    IF i > Len(coords) THEN Append(closed, cur)
    ELSE LET anchor == MedianPoint2([k \in 1..Len(cur) |-> coords[cur[k]]])
             near   == DistLess(distance_function,
                                DistSq2(Point2(coords[i]), anchor), r1)
             gap_ok == Len(coords[i]) = 3 =>
                          coords[i][3] - coords[i - 1][3] <= max_time_between
         IN IF near /\ gap_ok
            THEN GroupScan(coords, r1, max_time_between, distance_function,
                           i + 1, closed, Append(cur, i))
            ELSE GroupScan(coords, r1, max_time_between, distance_function,
                           i + 1, Append(closed, cur), <<i>>)

\* utils.group_time_distance: the ordered groups, each with its member sample
\* indices, its points, and whether it is stationary.
GroupTimeDistance(coords, r1, min_staying_time, max_time_between, distance_function) ==
    LET raw == GroupScan(coords, r1, max_time_between, distance_function,
                         2, <<>>, <<1>>)
    IN [g \in 1..Len(raw) |->
          LET m == raw[g]
          IN [members    |-> m,
              points     |-> [k \in 1..Len(m) |-> coords[m[k]]],
              stationary |-> Len(coords[1]) = 3 =>
                               coords[m[Len(m)]][3] - coords[m[1]][3]
                                   >= min_staying_time]]

\* utils.get_stationary_events, first result: the medians of the retained
\* groups, in order.
Retained(g, min_size) == g.stationary /\ Len(g.members) >= min_size

EventIndex(grps, g, min_size) ==
    Cardinality({h \in 1..(g - 1) : Retained(grps[h], min_size)})

StopEvents(grps, min_size) ==
    LET kept == Ascending({g \in 1..Len(grps) : Retained(grps[g], min_size)})
    IN [n \in 1..Len(kept) |-> MedianPoint2(grps[kept[n]].points)]

\* utils.get_stationary_events, second result: per sample, the index of its
\* event, or -1 when its group is not retained.
EventMap(grps, min_size) ==
    LET N == IF Len(grps) = 0 THEN 0
             ELSE LET last == grps[Len(grps)].members IN last[Len(last)]
        GroupOf(s) == CHOOSE g \in 1..Len(grps) : s \in Range(grps[g].members)
    IN [s \in 1..N |->
          IF Retained(grps[GroupOf(s)], min_size)
          THEN EventIndex(grps, GroupOf(s), min_size)
          ELSE -1]

\* np.triu_indices(c, 1): the pairs (i, j), i < j < c, in row-major order.
TriuIndices(c) ==
    LET upper == {p \in (0..(c - 1)) \X (0..(c - 1)) : p[1] < p[2]}
        keys  == Ascending({p[1] * c + p[2] : p \in upper})
    IN [k \in 1..Len(keys) |-> <<keys[k] \div c, keys[k] % c>>]

\* utils.general_pdist: the distances of the pairs i < j in condensed
\* (row-major upper-triangular) order.
GeneralPdist(events) ==
    LET tri == TriuIndices(Len(events))
    IN [k \in 1..Len(tri) |-> DistSq2(events[tri[k][1] + 1], events[tri[k][2] + 1])]

\* The community ids the oracle may hand out: small non-negative integers,
\* not necessarily contiguous.
CommunityIds == {0, 2}

\* utils.infomap_communities(nodes, edges): the possible results, a community
\* id for every node passed.
InfomapCommunities(node_list, edge_list) == [Range(node_list) -> CommunityIds]

\* utils.compute_intervals: one interval per maximal run of samples with the
\* same label and no time gap above max_time_between; the scan from sample i
\* on, with the run that started at sample first.
RECURSIVE IntervalScan(_, _, _, _, _, _)
IntervalScan(coords, coord_labels, max_time_between, i, first, done) ==
    LET close == Append(done, [label |-> coord_labels[first],
                               start |-> coords[first][3],
                               end   |-> coords[i - 1][3]])
    IN IF i > Len(coords) THEN close
       ELSE IF /\ coord_labels[i] = coord_labels[i - 1]
               /\ coords[i][3] - coords[i - 1][3] <= max_time_between
            THEN IntervalScan(coords, coord_labels, max_time_between, i + 1, first, done)
            ELSE IntervalScan(coords, coord_labels, max_time_between, i + 1, i, close)

ComputeIntervals(coords, coord_labels, max_time_between) ==
    IntervalScan(coords, coord_labels, max_time_between, 2, 1, <<>>)

----------------------------------------------------------------------------
(* Iteration order of the set singleton_nodes.                             *)
(*                                                                         *)
(* singleton_nodes is a Python set of small non-negative ints, and line    *)
(* 126-129 zips it with a range, so the ids depend on the order in which   *)
(* the set is iterated.  CPython iterates a set in hash-table slot order;  *)
(* an int hashes to itself.  The operators below follow CPython's          *)
(* setobject.c (open addressing, 9 linear probes when they fit, then the   *)
(* perturbed recurrence; a table of 8 slots that is resized to the first   *)
(* power of two above 4 * used once fill * 5 >= mask * 3).                 *)

Empty == -1

\* The slot where a key with hash h lands, probing from slot i.
RECURSIVE SetProbe(_, _, _, _)
SetProbe(table, mask, i, perturb) ==
    LET probes == IF i + 9 <= mask THEN 9 ELSE 0
        free   == {k \in 0..probes : table[i + k] = Empty}
    IN IF free # {}
       THEN i + (CHOOSE k \in free : \A l \in free : k <= l)
       ELSE LET p == perturb \div 32
            IN SetProbe(table, mask, (i * 5 + 1 + p) % (mask + 1), p)

SetInsertClean(table, mask, h) ==
    [table EXCEPT ![SetProbe(table, mask, h % (mask + 1), h)] = h]

\* The keys of a table in slot order.
TableKeys(table, mask) ==
    LET used == Ascending({i \in 0..mask : table[i] # Empty})
    IN [k \in 1..Len(used) |-> table[used[k]]]

RECURSIVE TableSize(_, _)
TableSize(newsize, minused) ==
    IF newsize <= minused THEN TableSize(2 * newsize, minused) ELSE newsize

RECURSIVE InsertAll(_, _, _, _)
InsertAll(table, mask, keys, k) ==
    IF k > Len(keys) THEN table
    ELSE InsertAll(SetInsertClean(table, mask, keys[k]), mask, keys, k + 1)

SetTableResize(table, mask, minused) ==
    LET newsize == TableSize(8, minused)
    IN [mask  |-> newsize - 1,
        table |-> InsertAll([i \in 0..(newsize - 1) |-> Empty], newsize - 1,
                            TableKeys(table, mask), 1)]

\* set.add of a key that is not in the set.
SetAddEntry(so, h) ==
    LET t    == SetInsertClean(so.table, so.mask, h)
        fill == Cardinality({i \in 0..so.mask : t[i] # Empty})
    IN IF fill * 5 < so.mask * 3 THEN [mask |-> so.mask, table |-> t]
       ELSE SetTableResize(t, so.mask, fill * 4)

RECURSIVE SetAddAll(_, _, _)
SetAddAll(so, keys, k) ==
    IF k > Len(keys) THEN so ELSE SetAddAll(SetAddEntry(so, keys[k]), keys, k + 1)

\* list(set(range(c)).difference(set(node_list))): set(range(c)) iterates in
\* ascending order (its table is larger than c).  When it is more than four
\* times as long as the other set, CPython copies it and discards, which
\* keeps that order; otherwise it adds the remaining keys to a new set.
SetIterOrder(c, node_list) ==
    LET rest == Ascending((0..(c - 1)) \ Range(node_list))
    IN IF (c \div 4) > Cardinality(Range(node_list)) THEN rest
       ELSE LET so == SetAddAll([mask |-> 7, table |-> [i \in 0..7 |-> Empty]],
                                rest, 1)
            IN TableKeys(so.table, so.mask)

----------------------------------------------------------------------------
(* best_partition: the assertions *)

NoError == "no error"
ColumnsError    == "Number of columns must be 2 or 3"
TimestampsError == "Timestamps must be ordered"
LatitudeError   == "Column 0 (latitude) must have values between -90 and 90"
LongitudeError  == "Column 1 (longitude) must have values between -180 and 180"
EdgesError      == "Found only 1 edge. Provide longer trajectory or increase r2."

\* coords.shape[1]
Shape1(coords) == Len(coords[1])

\* np.all(coords[:-1, 2] <= coords[1:, 2])
TimestampsOrdered(coords) ==
    \A i \in 1..(Len(coords) - 1) : coords[i][3] <= coords[i + 1][3]

\* Variant: the bounds themselves are accepted.
ColumnWithinInclusive(coords, k, lo, hi) ==
    SeqMin(Column(coords, k)) >= lo /\ SeqMax(Column(coords, k)) <= hi

\* np.min(coords[:, k]) > lo and np.max(coords[:, k]) < hi
ColumnWithin(coords, k, lo, hi) ==
    SeqMin(Column(coords, k)) > lo /\ SeqMax(Column(coords, k)) < hi

\* The error the assertions block raises, NoError if it raises none.
FailedAssertion(coords, distance_function) ==
    IF Shape1(coords) \notin {2, 3} THEN ColumnsError
    ELSE IF Shape1(coords) = 3 /\ ~TimestampsOrdered(coords) THEN TimestampsError
    ELSE IF distance_function = "haversine" /\ ~ColumnWithin(coords, 1, -90, 90)
         THEN LatitudeError
    ELSE IF distance_function = "haversine" /\ ~ColumnWithin(coords, 2, -180, 180)
         THEN LongitudeError
    ELSE NoError

----------------------------------------------------------------------------
(* run_infomap: the pure parts *)

NaN == -1

\* Variant: D = np.zeros((c, c)), zeros instead of nan outside the triangle.
DistanceMatrixZeros(c, pdist) ==
    LET tri == TriuIndices(c)
    IN [p \in (0..(c - 1)) \X (0..(c - 1)) |->
          IF \E k \in 1..Len(tri) : tri[k] = p
          THEN pdist[CHOOSE k \in 1..Len(tri) : tri[k] = p]
          ELSE 0]

\* D = np.zeros((c, c)) * np.nan; D[np.triu_indices(c, 1)] = pairwise_dist
DistanceMatrix(c, pdist) ==
    LET tri == TriuIndices(c)
    IN [p \in (0..(c - 1)) \X (0..(c - 1)) |->
          IF \E k \in 1..Len(tri) : tri[k] = p
          THEN pdist[CHOOSE k \in 1..Len(tri) : tri[k] = p]
          ELSE NaN]

\* Variant: D <= r2.
LessOrEqual(distance_function, d, r2) ==
    d # NaN /\ (DistLess(distance_function, d, r2) \/ d = 4 * r2 * r2)

\* One entry of D < r2: a comparison with nan is False.
LessThan(distance_function, d, r2) == d # NaN /\ DistLess(distance_function, d, r2)

\* np.column_stack(np.where(D < r2)): the index pairs in row-major order.
EdgesWhere(D, c, r2, distance_function) ==
    LET hits == {p \in (0..(c - 1)) \X (0..(c - 1)) :
                    LessThan(distance_function, D[p], r2)}
        keys == Ascending({p[1] * c + p[2] : p \in hits})
    IN [k \in 1..Len(keys) |-> <<keys[k] \div c, keys[k] % c>>]

\* np.unique(edges.flatten())
UniqueNodes(edge_list) ==
    Ascending(UNION {{edge_list[k][1], edge_list[k][2]} : k \in 1..Len(edge_list)})

\* Variant: the edge test never fires.
TooFewEdgesNever(edge_list) == Len(edge_list) < 0

\* len(edges) < 1
TooFewEdges(edge_list) == Len(edge_list) < 1

\* max(partition.values())
MaxLabel(part) == CHOOSE m \in {part[n] : n \in DOMAIN part} :
                      \A n \in DOMAIN part : part[n] <= m

\* Variant: range(max_label, max_label + n).
FreshRangeFromMax(max_label, n) == [k \in 1..n |-> max_label + k - 1]

\* range(max_label + 1, max_label + 1 + n)
FreshRange(max_label, n) == [k \in 1..n |-> max_label + k]

\* partition.update(dict(zip(singleton_nodes, range(...))))
UpdateSingletons(part, order) ==
    LET fresh == FreshRange(MaxLabel(part), Len(order))
        Pos(n) == CHOOSE k \in 1..Len(order) : order[k] = n
    IN [n \in DOMAIN part \cup Range(order) |->
          IF n \in Range(order) THEN fresh[Pos(n)] ELSE part[n]]

\* [partition[n] if n in partition else -1 for n in range(c)]
LabelList(part, c) ==
    [k \in 1..c |-> IF (k - 1) \in DOMAIN part THEN part[k - 1] ELSE -1]

\* Variant: no -1 is appended.
WithoutSentinel(label_list) == label_list

\* labels += [-1]
WithSentinel(label_list) == Append(label_list, -1)

\* Variant: the event labels are returned as they are, not expanded.
CoordLabelsUnexpanded(label_list, evmap) == label_list

\* np.array([labels[i] for i in event_map])
CoordLabels(label_list, evmap) ==
    [s \in 1..Len(evmap) |-> PyIndex(label_list, evmap[s])]

\* Variant: times = range(1, len(coords) + 1).
WithOrdinalTimesFromOne(coords) ==
    [s \in 1..Len(coords) |-> Append(coords[s], s)]

\* times = range(0, len(coords)); coords = np.hstack([coords, times])
WithOrdinalTimes(coords) ==
    [s \in 1..Len(coords) |-> Append(coords[s], s - 1)]

\* No value returned (yet).
NoOutput == [kind |-> "None", value |-> <<>>]

\* Variant: return_intervals is tested first.
ReturnsMedoidLabelsUnlessIntervals(a) ==
    a.return_medoid_labels /\ ~a.return_intervals

\* if return_medoid_labels: return np.array(labels)
ReturnsMedoidLabels(a) == a.return_medoid_labels

\* Lines 144-153.
PostprocessResult(a, label_list, evmap) ==
    LET coord_labels == CoordLabels(WithSentinel(label_list), evmap)
    IN IF a.return_intervals
       THEN [kind  |-> "intervals",
             value |-> ComputeIntervals(
                           IF Shape1(a.coords) = 2 THEN WithOrdinalTimes(a.coords)
                                                   ELSE a.coords,
                           coord_labels, a.max_time_between)]
       ELSE [kind |-> "coord_labels", value |-> coord_labels]

----------------------------------------------------------------------------
(* The blocks of best_partition and run_infomap *)

Assertions ==
    /\ pc = "assertions"
    /\ LET err == FailedAssertion(arg.coords, arg.distance_function)
       IN /\ raised' = err
          /\ pc' = IF err = NoError THEN "preprocess" ELSE "raised"
    /\ UNCHANGED <<arg, groups, stop_events, event_map, pairwise_dist, edges,
                   nodes, singleton_nodes, partition, labels, output, oracle_calls>>

Preprocess ==
    /\ pc = "preprocess"
    /\ groups' = GroupTimeDistance(arg.coords, arg.r1, arg.min_staying_time,
                                   arg.max_time_between, arg.distance_function)
    /\ stop_events' = StopEvents(groups', arg.min_size)
    /\ event_map' = EventMap(groups', arg.min_size)
    /\ pc' = "network"
    /\ UNCHANGED <<arg, pairwise_dist, edges, nodes, singleton_nodes, partition,
                   labels, output, raised, oracle_calls>>

Network ==
    /\ pc = "network"
    /\ LET c == Len(stop_events)
       IN /\ pairwise_dist' = GeneralPdist(stop_events)
          /\ edges' = EdgesWhere(DistanceMatrix(c, pairwise_dist'), c, arg.r2,
                                 arg.distance_function)
          /\ nodes' = UniqueNodes(edges')
          /\ singleton_nodes' = (0..(c - 1)) \ Range(nodes')
    /\ IF TooFewEdges(edges')
       THEN raised' = EdgesError /\ pc' = "raised"
       ELSE raised' = raised /\ pc' = "infer"
    /\ UNCHANGED <<arg, groups, stop_events, event_map, partition, labels,
                   output, oracle_calls>>

InferLabels ==
    /\ pc = "infer"
    /\ \E p \in InfomapCommunities(nodes, edges) : partition' = p
    /\ oracle_calls' = oracle_calls + 1
    /\ pc' = "labels"
    /\ UNCHANGED <<arg, groups, stop_events, event_map, pairwise_dist, edges,
                   nodes, singleton_nodes, labels, output, raised>>

\* Lines 124-139: the singleton block, the cast to a list, and the return
\* of medoid mode.
AssignLabels ==
    /\ pc = "labels"
    /\ partition' = IF arg.label_singleton
                    THEN UpdateSingletons(partition,
                                          SetIterOrder(Len(stop_events), nodes))
                    ELSE partition
    /\ labels' = LabelList(partition', Len(stop_events))
    /\ IF ReturnsMedoidLabels(arg)
       THEN output' = [kind |-> "labels", value |-> labels'] /\ pc' = "returned"
       ELSE output' = output /\ pc' = "postprocess"
    /\ UNCHANGED <<arg, groups, stop_events, event_map, pairwise_dist, edges,
                   nodes, singleton_nodes, raised, oracle_calls>>

Postprocess ==
    /\ pc = "postprocess"
    /\ labels' = WithSentinel(labels)
    /\ output' = PostprocessResult(arg, labels, event_map)
    /\ pc' = "returned"
    /\ UNCHANGED <<arg, groups, stop_events, event_map, pairwise_dist, edges,
                   nodes, singleton_nodes, partition, raised, oracle_calls>>

----------------------------------------------------------------------------
(* The calls explored: five families of arguments *)

\* The arguments of best_partition, in the order of its signature.
Args(coords, r1, r2, return_medoid_labels, label_singleton, min_staying_time, max_time_between, distance_function, return_intervals, min_size) ==
    [coords |-> coords, r1 |-> r1, r2 |-> r2,
     return_medoid_labels |-> return_medoid_labels,
     label_singleton |-> label_singleton,
     min_staying_time |-> min_staying_time,
     max_time_between |-> max_time_between,
     distance_function |-> distance_function,
     return_intervals |-> return_intervals,
     min_size |-> min_size]

\* All sequences over S of length 1..n.
SeqsUpTo(S, n) == UNION {[1..k -> S] : k \in 1..n}

\* Timestamps 0, then the running sum of the gaps.
RECURSIVE Cumulate(_, _)
Cumulate(gaps, k) == IF k = 0 THEN 0 ELSE Cumulate(gaps, k - 1) + gaps[k]

\* (1) Inputs at the edge of the preconditions: one or two samples of 1 to 4
\* columns, latitudes and longitudes on and inside the bounds, timestamps in
\* either order, both metrics.
EdgeRows ==
    LET Lat == {-90, 0, 90}
        Lon == {-180, 0, 180}
        T   == {0, 1}
    IN {{<<x>> : x \in Lat}, Lat \X Lon, Lat \X Lon \X T, Lat \X Lon \X T \X {0}}

EdgeCalls ==
    {Args(coords, 10, 10, FALSE, FALSE, 0, 0, fn, FALSE, 1) :
        coords \in UNION {SeqsUpTo(rows, 2) : rows \in EdgeRows},
        fn \in {"haversine", "euclidean"}}

\* (2) Every trajectory of up to MaxN samples without timestamps over three
\* positions on a line (0 and 1 are within r1 of each other, 4 is not; 0 and
\* 4 are exactly r2 apart), with every min_size that matters and every
\* combination of the flags.
PlanarCalls ==
    {Args(coords, 2, 4, f[1], f[2], 300, 86400, "euclidean", f[3], min_size) :
        coords \in SeqsUpTo({<<x, 0>> : x \in {0, 1, 4}}, MaxN),
        f \in BOOLEAN \X BOOLEAN \X BOOLEAN,
        min_size \in {1, 2}}

\* (3) Every trajectory of up to MaxTimed timestamped samples over two
\* positions, r2 apart, with gaps below and above max_time_between, and a
\* min_staying_time that a group of one sample does not reach.
TimedCoords ==
    {[s \in 1..Len(xs) |-> <<xs[s], 0, Cumulate(gaps, s - 1)>>] :
        xs \in SeqsUpTo({0, 4}, MaxTimed), gaps \in [1..(MaxTimed - 1) -> {1, 3}]}

TimedCalls ==
    {Args(coords, 2, 4, FALSE, label_singleton, 1, 2, "euclidean",
          return_intervals, 1) :
        coords \in TimedCoords,
        label_singleton \in BOOLEAN,
        return_intervals \in BOOLEAN}

\* (4) Two tight clusters of 5 points each, 1 km apart, r1 = 10 m and
\* r2 = 50 m, planar coordinates in metres; each point is at its cluster's
\* centre or one metre off.
ClusterCoords ==
    {[s \in 1..10 |-> <<(IF s <= 5 THEN 0 ELSE 1000) + jitter[s], 0>>] :
        jitter \in [1..10 -> {0, 1}]}

ClusterCalls ==
    {Args(coords, 10, 50, f[1], f[2], 300, 86400, "euclidean", f[3], 2) :
        coords \in ClusterCoords, f \in BOOLEAN \X BOOLEAN \X BOOLEAN}

\* (5) One sample a day for MaxDays days, at home except for up to two
\* excursions, each to a site of its own, a kilometre further out every
\* time; a day is longer than max_time_between, so every sample is an event.
DayCoords ==
    {[s \in 1..MaxDays |->
        <<IF s \in away THEN 1000 * Cardinality({q \in 1..s : q \in away}) ELSE 0,
          0, 100 * (s - 1)>>] :
        away \in {A \in SUBSET (1..MaxDays) : Cardinality(A) <= 2}}

DayCalls ==
    {Args(coords, 10, 50, TRUE, TRUE, 0, 50, "euclidean", FALSE, 1) :
        coords \in DayCoords}

Calls == EdgeCalls \cup PlanarCalls \cup TimedCalls \cup ClusterCalls \cup DayCalls

Init ==
    /\ arg \in Calls
    /\ pc = "assertions"
    /\ groups = <<>>
    /\ stop_events = <<>>
    /\ event_map = <<>>
    /\ pairwise_dist = <<>>
    /\ edges = <<>>
    /\ nodes = <<>>
    /\ singleton_nodes = {}
    /\ partition = <<>>
    /\ labels = <<>>
    /\ output = NoOutput
    /\ raised = NoError
    /\ oracle_calls = 0

Next ==
    \/ Assertions
    \/ Preprocess
    \/ Network
    \/ InferLabels
    \/ AssignLabels
    \/ Postprocess


Spec == Init /\ [][Next]_vars


----------------------------------------------------------------------------
(* Vocabulary of the properties *)

AssertionErrors == {ColumnsError, TimestampsError, LatitudeError, LongitudeError}

\* run_infomap has passed the edge test or raised at it.
PastNetwork ==
    /\ pc \in {"infer", "labels", "postprocess", "returned", "raised"}
    /\ raised \notin AssertionErrors

\* The singleton block has run.
PastSingleton == pc \in {"postprocess", "returned"}

NumSamples == Len(arg.coords)
NumEvents  == Len(stop_events)

\* Events i and j (0-based) are closer than r2, from their representatives.
Close(i, j) ==
    DistLess(arg.distance_function,
             DistSq2(stop_events[i + 1], stop_events[j + 1]), arg.r2)

ProximityPairs ==
    {p \in (0..(NumEvents - 1)) \X (0..(NumEvents - 1)) :
        p[1] < p[2] /\ Close(p[1], p[2])}

\* The largest id the oracle returned (the oracle labels exactly the nodes).
OracleMax ==
    CHOOSE m \in {partition[n] : n \in Range(nodes)} :
        \A n \in Range(nodes) : partition[n] <= m

\* The label the projection owes to sample s.
OwedLabel(s) ==
    IF event_map[s] = -1 THEN -1
    ELSE IF event_map[s] \in DOMAIN partition THEN partition[event_map[s]]
    ELSE -1

----------------------------------------------------------------------------
(* C1: a call with return_medoid_labels = False and return_intervals =      *)
(* False that passes the assertions and finds an edge returns a label       *)
(* vector with exactly one label per input sample, whatever the number of   *)
(* retained events, min_size and label_singleton.                           *)
C1_LabelVectorLength ==
    (/\ pc = "returned"
     /\ ~arg.return_medoid_labels
     /\ ~arg.return_intervals)
    => /\ output.kind = "coord_labels"
       /\ Len(output.value) = NumSamples

C1_Witness ==
    /\ pc = "returned"
    /\ output.kind = "coord_labels"
    /\ NumEvents = 2
    /\ NumSamples = 5
    /\ \E s \in 1..NumSamples : event_map[s] = -1

----------------------------------------------------------------------------
(* C2: when no two retained events are closer than r2 (also with no event   *)
(* or a single one), run_infomap raises: nothing is returned, for every     *)
(* combination of the three flags, and the oracle is not called.            *)
C2_NoEdgeRaises ==
    (PastNetwork /\ ProximityPairs = {})
    => /\ pc = "raised"
       /\ raised = EdgesError
       /\ output = NoOutput
       /\ partition = <<>>
       /\ labels = <<>>
       /\ oracle_calls = 0

C2_Witness ==
    /\ pc = "raised"
    /\ raised = EdgesError
    /\ NumEvents = 2
    /\ arg.label_singleton
    /\ arg.return_medoid_labels
    /\ arg.return_intervals

\* The same with no event and with a single event.
C2_WitnessNoEvent ==
    pc = "raised" /\ raised = EdgesError /\ NumEvents = 0 /\ arg.label_singleton

C2_WitnessOneEvent ==
    pc = "raised" /\ raised = EdgesError /\ NumEvents = 1 /\ arg.return_intervals

----------------------------------------------------------------------------
(* C3: best_partition raises before any segmentation, aggregation or        *)
(* clustering, and returns nothing, when the column count is neither 2 nor  *)
(* 3, or there are 3 columns and a timestamp is smaller than its            *)
(* predecessor, or the metric is the great-circle one and a column-0 value  *)
(* is not strictly inside (-90, 90) or a column-1 value not strictly inside *)
(* (-180, 180).  Equal consecutive timestamps are accepted, and with        *)
(* another metric the coordinates are not checked: any other input passes.  *)
C3_Rejected ==
    LET coords == arg.coords
        inside(k, lo, hi) == \A s \in 1..Len(coords) : lo < coords[s][k] /\ coords[s][k] < hi
    IN IF Len(coords[1]) \notin {2, 3} THEN TRUE
       ELSE \/ /\ Len(coords[1]) = 3
               /\ \E s \in 2..Len(coords) : coords[s][3] < coords[s - 1][3]
            \/ /\ arg.distance_function = "haversine"
               /\ ~(inside(1, -90, 90) /\ inside(2, -180, 180))

C3_Preconditions ==
    pc # "assertions"
    => /\ C3_Rejected =>
            /\ pc = "raised"
            /\ raised \in AssertionErrors
            /\ groups = <<>> /\ stop_events = <<>> /\ event_map = <<>>
            /\ pairwise_dist = <<>> /\ edges = <<>> /\ nodes = <<>>
            /\ partition = <<>> /\ labels = <<>>
            /\ oracle_calls = 0
            /\ output = NoOutput
       /\ ~C3_Rejected => raised \notin AssertionErrors

C3_Witness ==
    /\ pc = "raised"
    /\ raised = LongitudeError
    /\ Len(arg.coords) = 2
    /\ Len(arg.coords[1]) = 3
    /\ arg.coords[1][3] = arg.coords[2][3]
    /\ arg.coords[1][2] = 0
    /\ arg.coords[2][2] = 180

\* Equal consecutive timestamps pass the assertions.
C3_WitnessAccepted ==
    /\ pc = "network"
    /\ Len(arg.coords) = 2
    /\ Len(arg.coords[1]) = 3
    /\ arg.coords[1][3] = arg.coords[2][3]

----------------------------------------------------------------------------
(* C4: with label_singleton = True, once the singleton block has run every  *)
(* event index 0..C-1 has a community id, the ids of the isolated events    *)
(* are pairwise distinct and all greater than the largest id the oracle     *)
(* returned, and no sample of a retained event (nor any event, in medoid    *)
(* mode) is labelled -1.                                                    *)
C4_SingletonIds ==
    (PastSingleton /\ arg.label_singleton)
    => /\ DOMAIN partition = 0..(NumEvents - 1)
       /\ \A s, t \in singleton_nodes : s # t => partition[s] # partition[t]
       /\ \A s \in singleton_nodes : partition[s] > OracleMax
       /\ (pc = "returned" /\ output.kind = "coord_labels") =>
              \A s \in 1..NumSamples : event_map[s] # -1 => output.value[s] # -1
       /\ (pc = "returned" /\ output.kind = "labels") =>
              \A n \in 1..NumEvents : output.value[n] # -1

C4_Witness ==
    /\ pc = "returned"
    /\ arg.label_singleton
    /\ Cardinality(singleton_nodes) >= 2
    /\ OracleMax = 2
    /\ \E n \in Range(nodes) : partition[n] = 0

----------------------------------------------------------------------------
(* C5: with label_singleton = True the fresh ids go to the isolated events  *)
(* in event-index order: the j-th smallest isolated event index (j from 0)  *)
(* receives the oracle's largest id + 1 + j.                                *)
C5_EventIndexOrder ==
    (PastSingleton /\ arg.label_singleton)
    => LET sorted == Ascending(singleton_nodes)
       IN \A j \in 1..Len(sorted) : partition[sorted[j]] = OracleMax + j

----------------------------------------------------------------------------
(* C6: the projection is total and exact.  The returned label vector has an *)
(* entry for every sample: -1 where event_map holds the sentinel -1, the    *)
(* community id of the sample's event where that event has one, and -1      *)
(* where the event is isolated and label_singleton = False; every entry is  *)
(* -1 or a non-negative id.                                                 *)
C6_BackProjection ==
    (pc = "returned" /\ output.kind = "coord_labels")
    => /\ DOMAIN output.value = 1..NumSamples
       /\ \A s \in 1..NumSamples :
             /\ event_map[s] \in -1..(NumEvents - 1)
             /\ output.value[s] = OwedLabel(s)
             /\ output.value[s] >= -1
             /\ (event_map[s] # -1 /\ event_map[s] \notin DOMAIN partition)
                    => (~arg.label_singleton /\ event_map[s] \in singleton_nodes)
             /\ (event_map[s] # -1 /\ output.value[s] = -1)
                    => (~arg.label_singleton /\ event_map[s] \in singleton_nodes)

\* A sample that maps to the sentinel, in a run whose last event has a
\* community id.
C6_Witness ==
    /\ pc = "returned"
    /\ output.kind = "coord_labels"
    /\ \E s \in 1..NumSamples : event_map[s] = -1 /\ output.value[s] = -1
    /\ partition[NumEvents - 1] = 2
    /\ \E s \in 1..NumSamples : output.value[s] = 0

\* A sample of an isolated event labelled -1, and one labelled with a fresh id.
C6_WitnessIsolated ==
    /\ pc = "returned"
    /\ output.kind = "coord_labels"
    /\ ~arg.label_singleton
    /\ \E s \in 1..NumSamples :
          event_map[s] \in singleton_nodes /\ output.value[s] = -1

C6_WitnessFresh ==
    /\ pc = "returned"
    /\ output.kind = "coord_labels"
    /\ \E s \in 1..NumSamples :
          event_map[s] \in singleton_nodes /\ output.value[s] = 3

----------------------------------------------------------------------------
(* C7: the scenario of two tight clusters of 5 points each, 1 km apart,     *)
(* with r1 = 10 m and r2 = 50 m.                                            *)

ClusterScenario ==
    /\ NumSamples = 10
    /\ arg.r1 = 10 /\ arg.r2 = 50
    /\ \A s \in 1..5 : arg.coords[s][1] \in {0, 1}
    /\ \A s \in 6..10 : arg.coords[s][1] \in {1000, 1001}

\* As claimed: 2 stationary events whose pair has no edge, 2 distinct
\* community ids, and a returned label vector of two runs, one per cluster.
C7_TwoRunsReturned ==
    (/\ ClusterScenario
     /\ ~arg.return_medoid_labels /\ ~arg.return_intervals
     /\ pc \in {"returned", "raised"})
    => /\ pc = "returned"
       /\ NumEvents = 2
       /\ ProximityPairs = {}
       /\ DOMAIN partition = {0, 1} /\ partition[0] # partition[1]
       /\ output.kind = "coord_labels"
       /\ \A s \in 1..5 : output.value[s] = partition[0]
       /\ \A s \in 6..10 : output.value[s] = partition[1]

\* As the code behaves: the 2 stationary events (one per cluster, five
\* samples each) have no edge, so run_infomap raises its no-edge error; no
\* partition is computed and nothing is returned, whatever the flags.
C7_TwoEventsNoEdgeRaises ==
    (ClusterScenario /\ pc \notin {"assertions", "preprocess"})
    => /\ NumEvents = 2
       /\ event_map = <<0, 0, 0, 0, 0, 1, 1, 1, 1, 1>>
       /\ ProximityPairs = {}
       /\ pc # "network" =>
             /\ pc = "raised"
             /\ raised = EdgesError
             /\ edges = <<>>
             /\ partition = <<>>
             /\ oracle_calls = 0
             /\ output = NoOutput

C7_Witness ==
    /\ ClusterScenario
    /\ pc = "raised"
    /\ arg.coords[1][1] = 1
    /\ arg.coords[10][1] = 1000
    /\ arg.label_singleton
    /\ ~arg.return_medoid_labels /\ ~arg.return_intervals

----------------------------------------------------------------------------
(* C8: with return_medoid_labels = True a run that returns, returns exactly *)
(* C labels, entry n being event n's community id, or -1 when event n is    *)
(* isolated and label_singleton = False; not a per-sample vector, and not   *)
(* intervals even when return_intervals is set as well.                     *)
C8_MedoidLabels ==
    (pc = "returned" /\ arg.return_medoid_labels)
    => /\ output.kind = "labels"
       /\ Len(output.value) = NumEvents
       /\ \A n \in 0..(NumEvents - 1) :
             /\ n \in DOMAIN partition => output.value[n + 1] = partition[n]
             /\ n \notin DOMAIN partition =>
                    /\ output.value[n + 1] = -1
                    /\ n \in singleton_nodes
                    /\ ~arg.label_singleton
             /\ (n \in singleton_nodes /\ ~arg.label_singleton)
                    => output.value[n + 1] = -1

C8_Witness ==
    /\ pc = "returned"
    /\ arg.return_medoid_labels
    /\ arg.return_intervals
    /\ NumEvents = 3
    /\ NumSamples = 4
    /\ output.value = <<2, -1, 0>>

----------------------------------------------------------------------------
(* C9: with return_intervals = True and medoid mode off the result is the   *)
(* ordered sequence of intervals, one per maximal run of consecutive        *)
(* samples with the same label and no gap above max_time_between between    *)
(* neighbours.  The runs' member spans follow each other from the first     *)
(* sample to the last without gap or overlap, each interval carries its     *)
(* run's label and first and last timestamp, and with 2 columns the         *)
(* timestamps are the ordinals 0..N-1.                                      *)
TimeOf(s) == IF Len(arg.coords[1]) = 2 THEN s - 1 ELSE arg.coords[s][3]

RunBreaks ==
    {s \in 1..(NumSamples - 1) :
        \/ OwedLabel(s) # OwedLabel(s + 1)
        \/ TimeOf(s + 1) - TimeOf(s) > arg.max_time_between}

C9_Intervals ==
    (pc = "returned" /\ arg.return_intervals /\ ~arg.return_medoid_labels)
    => LET iv   == output.value
           cuts == Ascending(RunBreaks)
       IN /\ output.kind = "intervals"
          /\ Len(iv) = Len(cuts) + 1
          /\ \A k \in 1..Len(iv) :
                LET first == IF k = 1 THEN 1 ELSE cuts[k - 1] + 1
                    last  == IF k = Len(iv) THEN NumSamples ELSE cuts[k]
                IN /\ iv[k].label = OwedLabel(first)
                   /\ iv[k].start = TimeOf(first)
                   /\ iv[k].end = TimeOf(last)
                   /\ \A s \in first..(last - 1) :
                         /\ OwedLabel(s + 1) = OwedLabel(first)
                         /\ TimeOf(s + 1) - TimeOf(s) <= arg.max_time_between

\* Two consecutive intervals with the same label, split by a time gap.
C9_Witness ==
    /\ pc = "returned"
    /\ output.kind = "intervals"
    /\ \E k \in 1..(Len(output.value) - 1) :
          /\ output.value[k].label = output.value[k + 1].label
          /\ output.value[k].label = 2
          /\ output.value[k].end > output.value[k].start

\* Intervals over ordinal timestamps.
C9_WitnessOrdinals ==
    /\ pc = "returned"
    /\ output.kind = "intervals"
    /\ Len(arg.coords[1]) = 2
    /\ Len(output.value) = 3
    /\ output.value[2].start = 1 /\ output.value[2].end = 2

----------------------------------------------------------------------------
(* C10: the edges run_infomap builds are exactly the pairs (i, j),          *)
(* 0 <= i < j < C, of events closer than r2 (a pair at distance r2 is not   *)
(* an edge), each once, without self-loop or reversed pair; the node list   *)
(* is exactly the set of their endpoints, and it and the set of singleton   *)
(* events are disjoint and together are {0..C-1}.                           *)
C10_EdgeSet ==
    PastNetwork
    => LET pairs == ProximityPairs
           ends  == Range(nodes)
       IN /\ Range(edges) = pairs
          /\ Len(edges) = Cardinality(pairs)
          /\ \A k \in 1..Len(edges) : edges[k][1] < edges[k][2]
          /\ ends = UNION {{p[1], p[2]} : p \in pairs}
          /\ Len(nodes) = Cardinality(ends)
          /\ singleton_nodes \cap ends = {}
          /\ singleton_nodes \cup ends = 0..(NumEvents - 1)

\* A run with an edge, and a pair of events at distance exactly r2.
C10_Witness ==
    /\ pc = "infer"
    /\ edges # <<>>
    /\ singleton_nodes # {}
    /\ \E i, j \in 0..(NumEvents - 1) :
          /\ i < j
          /\ DistSq2(stop_events[i + 1], stop_events[j + 1]) = 4 * arg.r2 * arg.r2
          /\ <<i, j>> \notin Range(edges)

====
